---- MODULE Spec2Model ----
(***************************************************************************)
(* A model of squeue: a FIFO message queue kept in one file that several   *)
(* Squeue instances (possibly in different processes) open at once.        *)
(*                                                                         *)
(* The file is a sequence of bytes.  Every instance owns a file descriptor *)
(* and a read cursor (read_position[i]).  The operators named like the     *)
(* methods of squeue/squeue.py are those methods, written as functions of  *)
(* an instance view [file, offset, read_position].                         *)
(***************************************************************************)
EXTENDS Integers, Sequences, FiniteSets, TLC

\* ------------------------------------------------------------------ bounds

\* number of Squeue instances that may be opened on the file
NInst == 2

\* number of successful put calls in one behaviour
MaxPuts == 3

\* number of get calls in one behaviour of SpecFifo
MaxGets == 3

\* number of successful put calls in one behaviour of SpecClean
MaxPutsClean == 2

\* ------------------------------------------------- constants of squeue.py

_MESSAGE_SIZE_SIZE == 12

_MAX_MESSAGE_SIZE == 2 ^ _MESSAGE_SIZE_SIZE

_MESSAGE_READ_FLAG_FALSE == 0

_MESSAGE_READ_FLAG_TRUE == 1

_MESSAGE_READ_FLAG_SIZE == 1

_CONTROL_BITS_MINIMAL_SIZE == 2

_REQUIRED_METADATA_SIZE ==
    _MESSAGE_SIZE_SIZE + _MESSAGE_READ_FLAG_SIZE + _CONTROL_BITS_MINIMAL_SIZE

_OPTIONAL_METADATA_SIZE == 8 - (_REQUIRED_METADATA_SIZE % 8)

_CONTROL_BITS_SIZE == _CONTROL_BITS_MINIMAL_SIZE + _OPTIONAL_METADATA_SIZE

\* islice(cycle('1'), None, _CONTROL_BITS_SIZE)
_CONTROL_BITS == [k \in 1 .. _CONTROL_BITS_SIZE |-> 1]

_METADATA_SIZE == (_REQUIRED_METADATA_SIZE + _OPTIONAL_METADATA_SIZE) \div 8

\* ------------------------------------------------------ helpers on bytes

Min(a, b) == IF a < b THEN a ELSE b

\* the zero bytes of a hole left by a write beyond the end of the file
Zeros(n) == [k \in 1 .. n |-> 0]

\* os.read(fd, length) at offset pos: the bytes there are, at most length
OsRead(file, pos, length) ==
    IF pos >= Len(file) \/ length <= 0 THEN << >>
    ELSE SubSeq(file, pos + 1, Min(pos + length, Len(file)))

\* os.write(fd, value) at offset pos: overwrites in place, extends at the end
OsWrite(file, pos, value) ==
    IF value = << >> THEN file
    ELSE LET base == IF pos > Len(file)
                     THEN file \o Zeros(pos - Len(file)) ELSE file
             tailFrom == pos + Len(value) + 1
         IN  SubSeq(base, 1, pos) \o value \o
             (IF tailFrom <= Len(base)
              THEN SubSeq(base, tailFrom, Len(base)) ELSE << >>)

\* "{0:b}".format(value): the binary digits of value, most significant first
RECURSIVE BinaryDigits(_)
BinaryDigits(value) ==
    IF value < 2 THEN << value >>
    ELSE BinaryDigits(value \div 2) \o << (value % 2) >>

\* Squeue._int_to_binary; min_size = 0 stands for None
_int_to_binary(value, min_size) ==
    LET digits == BinaryDigits(value)
    IN  IF min_size # 0 /\ Len(digits) < min_size
        THEN Zeros(min_size - Len(digits)) \o digits
        ELSE digits

\* Squeue._binary_to_int: int(binary, base=2)
RECURSIVE _binary_to_int(_)
_binary_to_int(binary) ==
    IF binary = << >> THEN 0
    ELSE 2 * _binary_to_int(SubSeq(binary, 1, Len(binary) - 1))
         + binary[Len(binary)]

\* Squeue._bytes_to_int: int.from_bytes(data, byteorder='big')
RECURSIVE _bytes_to_int(_)
_bytes_to_int(data) ==
    IF data = << >> THEN 0
    ELSE 256 * _bytes_to_int(SubSeq(data, 1, Len(data) - 1))
         + data[Len(data)]

\* the big-endian bytes of value on exactly length bytes (value < 256^length)
RECURSIVE BigEndian(_, _)
BigEndian(length, value) ==
    IF length = 0 THEN << >>
    ELSE BigEndian(length - 1, value \div 256) \o << (value % 256) >>

\* Squeue._int_to_bytes: value.to_bytes(length, byteorder='big'), which raises
\* OverflowError when value does not fit
_int_to_bytes(length, value) ==
    IF value >= 256 ^ length
    THEN [err |-> "OverflowError", bytes |-> << >>]
    ELSE [err |-> "none", bytes |-> BigEndian(length, value)]

\* Squeue._split_on_portions
RECURSIVE _split_on_portions(_, _)
_split_on_portions(data, portions) ==
    IF portions = << >> THEN << >>
    ELSE << SubSeq(data, 1, Min(portions[1], Len(data))) >> \o
         _split_on_portions(
             SubSeq(data, Min(portions[1], Len(data)) + 1, Len(data)),
             Tail(portions))

\* Squeue._serialize_metadata: length bits, read flag, control bits
_serialize_metadata(message_length, message_read) ==
    LET length_bits == _int_to_binary(message_length, 0)
        metadata == length_bits \o << message_read >> \o _CONTROL_BITS
    IN  _int_to_bytes(_METADATA_SIZE, _binary_to_int(metadata))

\* Squeue._deserialize_metadata; isNone is the bare `return None`
_deserialize_metadata(data) ==
    LET binary == _int_to_binary(_bytes_to_int(data), _METADATA_SIZE * 8)
        parts == _split_on_portions(binary,
                     << _MESSAGE_SIZE_SIZE, _MESSAGE_READ_FLAG_SIZE,
                        _CONTROL_BITS_SIZE >>)
    IN  IF parts[3] # _CONTROL_BITS
        THEN [isNone |-> TRUE, message_length |-> 0, message_read |-> 0]
        ELSE [isNone |-> FALSE,
              message_length |-> _binary_to_int(parts[1]),
              message_read |-> parts[2][1]]

\* ------------------------------------------------------------- messages

\* A message is a str: a sequence of code points.  97 is 'a', 233 is
\* 'e' with an acute accent (two bytes in UTF-8).
\* The messages offered to put: "a" followed by e-acute (3 bytes encoded) and
\* the empty string (a record that is a header alone).
Msgs == { << 97, 233 >>, << >> }

\* Squeue._serialize_message: str.encode(message), UTF-8
RECURSIVE _serialize_message(_)
_serialize_message(message) ==
    IF message = << >> THEN << >>
    ELSE LET cp == Head(message)
         IN  (IF cp < 128 THEN << cp >>
              ELSE << 192 + (cp \div 64), 128 + (cp % 64) >>)
             \o _serialize_message(Tail(message))

\* Squeue._deserialize_message: data.decode(), which raises on bytes that are
\* not UTF-8 (code points below 2048 are modelled)
RECURSIVE _deserialize_message(_)
_deserialize_message(data) ==
    IF data = << >> THEN [err |-> "none", text |-> << >>]
    ELSE LET b == Head(data)
         IN  IF b < 128
             THEN LET rest == _deserialize_message(Tail(data))
                  IN  [err |-> rest.err, text |-> << b >> \o rest.text]
             ELSE IF b >= 194 /\ b < 224 /\ Len(data) >= 2
                     /\ data[2] >= 128 /\ data[2] < 192
             THEN LET rest == _deserialize_message(SubSeq(data, 3, Len(data)))
                  IN  [err |-> rest.err,
                       text |-> << (b - 192) * 64 + (data[2] - 128) >>
                                \o rest.text]
             ELSE [err |-> "UnicodeDecodeError", text |-> << >>]

\* ------------------------------------------------- methods of one instance

\* An instance view v is [file, offset, read_position]: the bytes of the file, the offset
\* of the instance's descriptor and its _read_position.  A method returns
\* [v, ret, err]: the view it leaves, its return value and the exception it
\* raised ("none" when it returned).

NoneRes == [some |-> FALSE, val |-> << >>]

SomeRes(text) == [some |-> TRUE, val |-> text]

Returned(v, ret) == [v |-> v, ret |-> ret, err |-> "none"]

Raised(v, err) == [v |-> v, ret |-> NoneRes, err |-> err]

\* Squeue._go_to_the_read_position: lseek(fd, _read_position, SEEK_SET)
_go_to_the_read_position(v) == [v EXCEPT !.offset = v.read_position]

\* Squeue._go_to_the_write_position: lseek(fd, 0, SEEK_END)
_go_to_the_write_position(v) == [v EXCEPT !.offset = Len(v.file)]

\* a _write that counts the bytes written into _read_position, as _read does
_write_moving_cursor(v, value) ==
    [v EXCEPT !.file = OsWrite(v.file, v.offset, value),
              !.offset = v.offset + Len(value),
              !.read_position = v.read_position + Len(value)]

\* a _write on a descriptor opened with O_APPEND: it lands at the end
_write_appending(v, value) ==
    [v EXCEPT !.file = OsWrite(v.file, Len(v.file), value),
              !.offset = Len(v.file) + Len(value)]

\* Squeue._write
_write(v, value) ==
    [v EXCEPT !.file = OsWrite(v.file, v.offset, value),
              !.offset = v.offset + Len(value)]

\* Squeue._read: ret is the data read
_read(v, length, peek) ==
    LET data == OsRead(v.file, v.offset, length)
        moved == [v EXCEPT !.offset = v.offset + Len(data)]
    IN  IF ~peek
        THEN Returned([moved EXCEPT !.read_position = v.read_position + Len(data)], data)
        ELSE Returned(_go_to_the_read_position(moved), data)

\* a _go_to_the_next_message that steps over the header and not the payload
_go_to_the_next_message_header_only(v) ==
    LET r == _read(v, _METADATA_SIZE, FALSE)
        md == _deserialize_metadata(r.ret)
    IN  IF r.ret = << >> THEN Returned(r.v, NoneRes)
        ELSE IF md.isNone THEN Raised(r.v, "TypeError")
        ELSE Returned(_go_to_the_read_position(r.v), NoneRes)

\* Squeue._go_to_the_next_message; unpacking a None metadata is a TypeError
_go_to_the_next_message(v) ==
    LET r == _read(v, _METADATA_SIZE, FALSE)
        md == _deserialize_metadata(r.ret)
    IN  IF r.ret = << >> THEN Returned(r.v, NoneRes)
        ELSE IF md.isNone THEN Raised(r.v, "TypeError")
        ELSE Returned(
                 _go_to_the_read_position(
                     [r.v EXCEPT !.read_position = r.v.read_position + md.message_length]),
                 NoneRes)

\* Squeue._is_end_of_file: ret is a boolean
_is_end_of_file(v) ==
    LET r == _read(v, _METADATA_SIZE, TRUE)
    IN  Returned(r.v, r.ret = << >>)

\* a _message_already_read that takes every record for unread
_message_already_read_never(v) ==
    LET r == _read(v, _METADATA_SIZE, TRUE)
        md == _deserialize_metadata(r.ret)
    IN  IF md.isNone THEN Raised(r.v, "TypeError")
        ELSE Returned(r.v, FALSE)

\* Squeue._message_already_read: ret is a boolean
_message_already_read(v) ==
    LET r == _read(v, _METADATA_SIZE, TRUE)
        md == _deserialize_metadata(r.ret)
    IN  IF md.isNone THEN Raised(r.v, "TypeError")
        ELSE Returned(r.v, md.message_read = _MESSAGE_READ_FLAG_TRUE)

\* a _mark_message_as_read that writes the header back with the unread flag
_mark_message_as_read_unflipped(v) ==
    LET r == _read(v, _METADATA_SIZE, TRUE)
        md == _deserialize_metadata(r.ret)
        new_metadata ==
            _serialize_metadata(md.message_length, _MESSAGE_READ_FLAG_FALSE)
    IN  IF md.isNone THEN Raised(r.v, "TypeError")
        ELSE IF new_metadata.err # "none" THEN Raised(r.v, new_metadata.err)
        ELSE Returned(
                 _go_to_the_read_position(_write(r.v, new_metadata.bytes)),
                 NoneRes)

\* a _mark_message_as_read that writes a header of size 0 back
_mark_message_as_read_resized(v) ==
    LET r == _read(v, _METADATA_SIZE, TRUE)
        md == _deserialize_metadata(r.ret)
        new_metadata == _serialize_metadata(0, _MESSAGE_READ_FLAG_TRUE)
    IN  IF md.isNone THEN Raised(r.v, "TypeError")
        ELSE IF new_metadata.err # "none" THEN Raised(r.v, new_metadata.err)
        ELSE Returned(
                 _go_to_the_read_position(_write(r.v, new_metadata.bytes)),
                 NoneRes)

\* Squeue._mark_message_as_read
_mark_message_as_read(v) ==
    LET r == _read(v, _METADATA_SIZE, TRUE)
        md == _deserialize_metadata(r.ret)
        new_metadata ==
            _serialize_metadata(md.message_length, _MESSAGE_READ_FLAG_TRUE)
    IN  IF md.isNone THEN Raised(r.v, "TypeError")
        ELSE IF new_metadata.err # "none" THEN Raised(r.v, new_metadata.err)
        ELSE Returned(
                 _go_to_the_read_position(_write(r.v, new_metadata.bytes)),
                 NoneRes)

\* a _read_message that peeks the payload, leaving the cursor before it
_read_message_payload_peeked(v) ==
    LET r == _read(v, _METADATA_SIZE, FALSE)
        md == _deserialize_metadata(r.ret)
        m == _read(r.v, md.message_length, TRUE)
        text == _deserialize_message(m.ret)
    IN  IF md.isNone THEN Raised(r.v, "TypeError")
        ELSE IF text.err # "none" THEN Raised(m.v, text.err)
        ELSE Returned(m.v, SomeRes(text.text))

\* Squeue._read_message: ret is the message read
_read_message(v) ==
    LET r == _read(v, _METADATA_SIZE, FALSE)
        md == _deserialize_metadata(r.ret)
        m == _read(r.v, md.message_length, FALSE)
        text == _deserialize_message(m.ret)
    IN  IF md.isNone THEN Raised(r.v, "TypeError")
        ELSE IF text.err # "none" THEN Raised(m.v, text.err)
        ELSE Returned(m.v, SomeRes(text.text))

\* the `while True` loop of Squeue.get
RECURSIVE GetLoop(_)
GetLoop(v) ==
    LET eof == _is_end_of_file(v)
        seen == _message_already_read(eof.v)
        next == _go_to_the_next_message(seen.v)
        marked == _mark_message_as_read(seen.v)
    IN  IF eof.ret THEN Returned(eof.v, NoneRes)
        ELSE IF seen.err # "none" THEN seen
        ELSE IF seen.ret
        THEN (IF next.err # "none" THEN next ELSE GetLoop(next.v))
        ELSE IF marked.err # "none" THEN marked
        ELSE _read_message(marked.v)

\* Squeue.get: ret is NoneRes for None, SomeRes(message) otherwise
get(v) == GetLoop(_go_to_the_read_position(v))

\* an empty loop that takes a record already read for the end of the queue
EmptyLoop_stops_at_read(v) ==
    LET eof == _is_end_of_file(v)
        seen == _message_already_read(eof.v)
    IN  IF eof.ret THEN Returned(eof.v, TRUE)
        ELSE IF seen.err # "none" THEN [seen EXCEPT !.ret = FALSE]
        ELSE Returned(seen.v, seen.ret)

\* the `while True` loop of Squeue.empty
RECURSIVE EmptyLoop(_)
EmptyLoop(v) ==
    LET eof == _is_end_of_file(v)
        seen == _message_already_read(eof.v)
        next == _go_to_the_next_message(seen.v)
    IN  IF eof.ret THEN Returned(eof.v, TRUE)
        ELSE IF seen.err # "none" THEN [seen EXCEPT !.ret = FALSE]
        ELSE IF seen.ret
        THEN (IF next.err # "none"
              THEN [next EXCEPT !.ret = FALSE] ELSE EmptyLoop(next.v))
        ELSE Returned(seen.v, FALSE)

\* an empty() written as "get() is None": it consumes the message it finds
empty_by_get(v) ==
    LET r == get(v)
    IN  [r EXCEPT !.ret = ~r.ret.some]

\* Squeue.empty: ret is a boolean
empty(v) == EmptyLoop(_go_to_the_read_position(v))

\* Squeue.put
put(v, message) ==
    LET at_end == _go_to_the_write_position(v)
        payload == _serialize_message(message)
        metadata == _serialize_metadata(Len(payload), _MESSAGE_READ_FLAG_FALSE)
    IN  IF metadata.err # "none" THEN Raised(at_end, metadata.err)
        ELSE Returned(_write(_write(at_end, metadata.bytes), payload), NoneRes)

\* Squeue.__init__: opens the file (creating it when missing), cursor at 0
SqueueInit(file) == [file |-> file, offset |-> 0, read_position |-> 0]

\* ------------------------------------------------------------------ state

Inst == 1 .. NInst

VARIABLES
    file,           \* the bytes of the queue file
    opened,         \* the instances constructed so far
    read_position,  \* read_position[i]: Squeue._read_position of instance i
    putLog,         \* the messages of the put calls that returned, in order
    delivered,      \* the messages returned by get calls, in call order
    last,           \* the last call, see Call
    nGets,          \* SpecFifo: the number of get calls made so far
    sfile,          \* SpecEmpty: the file of the run without the empty() calls
    sread_position, \* SpecEmpty: the read cursors of that run
    sres,           \* SpecEmpty: the result of that run's last get
    szLen,          \* SpecSize: the encoded length of the message to put
    szRes,          \* SpecSize: how put of such a message ended
    token,          \* SpecClean: token[i], the token instance i has cached
    autoclean,      \* SpecClean: autoclean[i]
    critical_size,  \* SpecClean: critical_size[i]
    gen             \* SpecClean: the number of tokens generated so far

VARIABLES
    mdSize,         \* SpecMeta: Metadata.message_size of the header to encode
    mdFlag,         \* SpecMeta: Metadata.message_read_flag of that header
    mdOut,          \* SpecMeta: how serialize() of it ended
    mdBack,         \* SpecMeta: what deserialize() made of the bytes
    torn,           \* SpecTorn: a put was cut short inside its header
    pc,             \* SpecSteps: pc[i] is the system call process i makes next
    fd_offset,      \* SpecSteps: the offset of the descriptor of process i
    local,          \* SpecSteps: the local variables of the call of process i
    flips,          \* SpecSteps: the offsets at which a flag write has landed
    retLog,         \* SpecSteps: the get calls that returned a message
    started,        \* SpecSteps: the put calls begun: message, offset sought
    lockfile,       \* SpecLock: the lock file exists
    method,         \* SpecLock: method[i] is the write method of process i
    spun            \* SpecLock: the processes that found the lock taken

progVars == << file, opened, read_position, putLog, delivered, last >>

metaVars == << mdSize, mdFlag, mdOut, mdBack >>

\* the state of the specifications that follow Spec
stepVars == << pc, fd_offset, local, flips, retLog, started >>

lockVars == << lockfile, method, spun >>

extVars == << metaVars, torn, stepVars, lockVars >>

\* no header handed to Metadata yet
IdleMeta ==
    /\ mdSize = 0
    /\ mdFlag = << 0 >>
    /\ mdOut = [done |-> FALSE, err |-> "none", bytes |-> << >>]
    /\ mdBack = [done |-> FALSE, message_size |-> 0,
                 message_read_flag |-> << >>]

\* the local variables of a call: the message put and its encoding, the
\* header to write, the length read from a header, the offset of the record
\* whose flag the call checked and whether no flag write had landed there
NoLocal ==
    [message |-> << >>, payload |-> << >>, metadata |-> << >>,
     message_length |-> 0, target |-> 0, fresh |-> FALSE]

\* no process inside a call
IdleSteps ==
    /\ pc = [i \in Inst |-> "idle"]
    /\ fd_offset = [i \in Inst |-> 0]
    /\ local = [i \in Inst |-> NoLocal]
    /\ flips = {}
    /\ retLog = << >>
    /\ started = << >>

\* no lock file and no process that writes under the lock
IdleLock ==
    /\ lockfile = FALSE
    /\ method = [i \in Inst |-> "context"]
    /\ spun = {}

IdleExt == IdleMeta /\ torn = FALSE /\ IdleSteps /\ IdleLock

shadowVars == << sfile, sread_position, sres >>

sizeVars == << szLen, szRes >>

cleanVars == << token, autoclean, critical_size, gen >>

vars == << progVars, nGets, shadowVars, sizeVars, cleanVars, extVars >>

\* what the calls of Spec, SpecFifo and SpecEmpty leave alone
frameSpec == << nGets, shadowVars, sizeVars, cleanVars, extVars >>

frameFifo == << shadowVars, sizeVars, cleanVars, extVars >>

frameEmpty == << nGets, sizeVars, cleanVars, extVars >>

\* The view a call of instance i starts from.  put, get and empty each begin
\* with an lseek, so the offset the previous call left is never read and is
\* not kept between calls.
View(i) == [file |-> file, offset |-> 0, read_position |-> read_position[i]]

SView(i) ==
    [file |-> sfile, offset |-> 0, read_position |-> sread_position[i]]

\* A call: res is what get returned; flag is what empty returned and, for
\* get and clean, whether the call compacted the file; reset tells that the
\* call found a changed token and reset a cursor that had advanced.
Call(op, i, res, flag, err, reset) ==
    [op |-> op, inst |-> i, res |-> res, flag |-> flag, err |-> err,
     reset |-> reset]

Init ==
    /\ file = << >>
    /\ opened = {}
    /\ read_position = [i \in Inst |-> 0]
    /\ putLog = << >>
    /\ delivered = << >>
    /\ last = Call("none", 0, NoneRes, FALSE, "none", FALSE)
    /\ nGets = 0
    /\ sfile = << >>
    /\ sread_position = [i \in Inst |-> 0]
    /\ sres = NoneRes
    /\ szLen = 0
    /\ szRes = "pending"
    /\ token = [i \in Inst |-> << >>]
    /\ autoclean = [i \in Inst |-> FALSE]
    /\ critical_size = [i \in Inst |-> 0]
    /\ gen = 0
    /\ IdleExt

\* q = Squeue(name)
Open(i) ==
    /\ i \notin opened
    /\ \E v \in {SqueueInit(file)} :
           /\ opened' = opened \cup {i}
           /\ file' = v.file
           /\ read_position' = [read_position EXCEPT ![i] = v.read_position]
    /\ last' = Call("open", i, NoneRes, FALSE, "none", FALSE)
    /\ UNCHANGED << putLog, delivered >>

\* q.put(m)
Put(i, m) ==
    /\ i \in opened
    /\ Len(putLog) < MaxPuts
    /\ \E r \in {put(View(i), m)} :
           /\ file' = r.v.file
           /\ read_position' = [read_position EXCEPT ![i] = r.v.read_position]
           /\ putLog' = IF r.err = "none" THEN Append(putLog, m) ELSE putLog
           /\ last' = Call("put", i, NoneRes, FALSE, r.err, FALSE)
    /\ UNCHANGED << opened, delivered >>

\* q.get()
Get(i) ==
    /\ i \in opened
    /\ \E r \in {get(View(i))} :
           /\ file' = r.v.file
           /\ read_position' = [read_position EXCEPT ![i] = r.v.read_position]
           /\ delivered' = IF r.err = "none" /\ r.ret.some
                           THEN Append(delivered, r.ret.val) ELSE delivered
           /\ last' = Call("get", i, r.ret, FALSE, r.err, FALSE)
    /\ UNCHANGED << opened, putLog >>

\* q.empty()
Empty(i) ==
    /\ i \in opened
    /\ \E r \in {empty(View(i))} :
           /\ file' = r.v.file
           /\ read_position' = [read_position EXCEPT ![i] = r.v.read_position]
           /\ last' = Call("empty", i, NoneRes, r.ret, r.err, FALSE)
    /\ UNCHANGED << opened, putLog, delivered >>

\* Calls of any instance, one at a time.
Next ==
    \/ \E i \in Inst : Open(i) /\ UNCHANGED frameSpec
    \/ \E i \in Inst, m \in Msgs :
           Put(i, m) /\ UNCHANGED frameSpec
    \/ \E i \in Inst : Get(i) /\ UNCHANGED frameSpec
    \/ \E i \in Inst : Empty(i) /\ UNCHANGED frameSpec

Spec == Init /\ [][Next]_vars

\* ---------------------------------------- one instance, put and get only

NextFifo ==
    \/ Open(1) /\ UNCHANGED frameSpec
    \/ \E m \in Msgs : Put(1, m) /\ UNCHANGED frameSpec
    \/ /\ nGets < MaxGets
       /\ Get(1)
       /\ nGets' = nGets + 1
       /\ UNCHANGED frameFifo

SpecFifo == Init /\ [][NextFifo]_vars

\* ------------------- the same calls run a second time without empty()

\* the second run takes the call `op` of instance i on its own file
ShadowOpen(i) ==
    \E sv \in {SqueueInit(sfile)} :
        /\ sfile' = sv.file
        /\ sread_position' = [sread_position EXCEPT ![i] = sv.read_position]
        /\ UNCHANGED sres

ShadowPut(i, m) ==
    \E sr \in {put(SView(i), m)} :
        /\ sfile' = sr.v.file
        /\ sread_position' = [sread_position EXCEPT ![i] = sr.v.read_position]
        /\ UNCHANGED sres

ShadowGet(i) ==
    \E sr \in {get(SView(i))} :
        /\ sfile' = sr.v.file
        /\ sread_position' = [sread_position EXCEPT ![i] = sr.v.read_position]
        /\ sres' = sr.ret

NextEmpty ==
    \/ \E i \in Inst : Open(i) /\ ShadowOpen(i) /\ UNCHANGED frameEmpty
    \/ \E i \in Inst, m \in Msgs :
           Put(i, m) /\ ShadowPut(i, m) /\ UNCHANGED frameEmpty
    \/ \E i \in Inst : Get(i) /\ ShadowGet(i) /\ UNCHANGED frameEmpty
    \/ \E i \in Inst : Empty(i) /\ UNCHANGED frameSpec

SpecEmpty == Init /\ [][NextEmpty]_vars

\* ------------------------------------------- the size limit of put

\* how far around each limit the lengths tried by SpecSize reach
SizeProbe == 20

\* Metadata.MESSAGE_SIZE_SIZE of squeue/metadata.py
MESSAGE_SIZE_SIZE == 15

\* Metadata.MAX_MESSAGE_SIZE of squeue/metadata.py
MAX_MESSAGE_SIZE == 2 ^ MESSAGE_SIZE_SIZE

\* the encoded lengths tried: around 0, around _MAX_MESSAGE_SIZE and around
\* 2^15
SizeInputs ==
    (0 .. SizeProbe)
    \cup ((_MAX_MESSAGE_SIZE - SizeProbe) .. (_MAX_MESSAGE_SIZE + SizeProbe))
    \cup ((MAX_MESSAGE_SIZE - SizeProbe) .. (MAX_MESSAGE_SIZE + SizeProbe))

\* Squeue.put of a message whose encoding is message_length bytes long: the
\* exception it raises, "none" when it writes the record and returns
put_outcome(message_length) ==
    _serialize_metadata(message_length, _MESSAGE_READ_FLAG_FALSE).err

InitSize ==
    /\ file = << >>
    /\ opened = {}
    /\ read_position = [i \in Inst |-> 0]
    /\ putLog = << >>
    /\ delivered = << >>
    /\ last = Call("none", 0, NoneRes, FALSE, "none", FALSE)
    /\ nGets = 0
    /\ sfile = << >>
    /\ sread_position = [i \in Inst |-> 0]
    /\ sres = NoneRes
    /\ szLen \in SizeInputs
    /\ szRes = "pending"
    /\ token = [i \in Inst |-> << >>]
    /\ autoclean = [i \in Inst |-> FALSE]
    /\ critical_size = [i \in Inst |-> 0]
    /\ gen = 0
    /\ IdleExt

\* q.put(m) with len(str.encode(m)) = szLen
PutOfSize ==
    /\ szRes = "pending"
    /\ szRes' = put_outcome(szLen)
    /\ UNCHANGED << progVars, nGets, shadowVars, cleanVars, szLen, extVars >>

SpecSize == InitSize /\ [][PutOfSize]_vars

\* ------------------------------------- tokens, compaction and autoclean
\* The constructor that writes a token, the token check of get and empty,
\* clean() and the autoclean of get are not in squeue/squeue.py; the tests
\* call them.  They are modelled from the specification, around the put,
\* get and empty of squeue/squeue.py.

TOKEN_SIZE == 4

\* the g-th token generated: 4 random bytes, taken as never repeating
NewToken(g) == BigEndian(TOKEN_SIZE, g)

\* (autoclean, critical_size) of an instance: autoclean on with a threshold
\* that the first record of a file may or may not pass, and autoclean off
\* with the low threshold of the tests.  The default threshold, which no
\* file here reaches, acts as autoclean off does.
Configs ==
    { [autoclean |-> TRUE, critical_size |-> 6],
      [autoclean |-> FALSE, critical_size |-> 5] }

\* the files a queue may be opened on at first: missing or empty, and two
\* files that are not empty and shorter than a token
InitialFiles == { << >>, << 7 >>, << 7, 7, 7 >> }

\* an open(path) that takes whatever bytes a file holds for its token
storage_open_unchecked(f, g, config) ==
    LET found == OsRead(f, 0, TOKEN_SIZE)
        made == NewToken(g + 1)
        view(bytes, tok) ==
            [file |-> bytes, offset |-> TOKEN_SIZE,
             read_position |-> TOKEN_SIZE, token |-> tok,
             autoclean |-> config.autoclean,
             critical_size |-> config.critical_size]
    IN  IF Len(f) = 0
        THEN [v |-> view(OsWrite(f, 0, made), made), err |-> "none",
              fresh |-> 1]
        ELSE [v |-> view(f, found), err |-> "none", fresh |-> 0]

\* open(path): err is "NoTokenFoundError" or "none"; fresh is the number of
\* tokens generated
storage_open(f, g, config) ==
    LET found == OsRead(f, 0, TOKEN_SIZE)
        made == NewToken(g + 1)
        view(bytes, tok) ==
            [file |-> bytes, offset |-> TOKEN_SIZE,
             read_position |-> TOKEN_SIZE, token |-> tok,
             autoclean |-> config.autoclean,
             critical_size |-> config.critical_size]
    IN  IF Len(f) = 0
        THEN [v |-> view(OsWrite(f, 0, made), made), err |-> "none",
              fresh |-> 1]
        ELSE IF Len(found) < TOKEN_SIZE
        THEN [v |-> view(f, << >>), err |-> "NoTokenFoundError",
              fresh |-> 0]
        ELSE [v |-> view(f, found), err |-> "none", fresh |-> 0]

\* token validation: the token on disk differs from the cached one
token_changed(v) == OsRead(v.file, 0, TOKEN_SIZE) # v.token

\* token validation resets a cursor that had advanced
cursor_reset(v) == token_changed(v) /\ v.read_position # TOKEN_SIZE

\* a token validation that adopts the new token and keeps the cursor
validate_token_keeps_cursor(v) ==
    IF token_changed(v)
    THEN [v EXCEPT !.token = OsRead(v.file, 0, TOKEN_SIZE)]
    ELSE v

\* token validation, run at the top of get and empty
validate_token(v) ==
    IF token_changed(v)
    THEN [v EXCEPT !.read_position = TOKEN_SIZE,
                   !.token = OsRead(v.file, 0, TOKEN_SIZE)]
    ELSE v

\* clean() step 1: the offset of the first unread record from p on, the end
\* of the file when there is none
\* a scan that steps over one read record only
first_unread_one_record(f, p) ==
    LET header == OsRead(f, p, _METADATA_SIZE)
        md == _deserialize_metadata(header)
    IN  IF Len(header) < _METADATA_SIZE THEN Len(f)
        ELSE IF md.isNone THEN p
        ELSE IF md.message_read = _MESSAGE_READ_FLAG_TRUE
        THEN p + _METADATA_SIZE + md.message_length
        ELSE p

RECURSIVE first_unread(_, _)
first_unread(f, p) ==
    LET header == OsRead(f, p, _METADATA_SIZE)
        md == _deserialize_metadata(header)
    IN  IF Len(header) < _METADATA_SIZE THEN Len(f)
        ELSE IF md.isNone THEN p
        ELSE IF md.message_read = _MESSAGE_READ_FLAG_TRUE
        THEN first_unread(f, p + _METADATA_SIZE + md.message_length)
        ELSE p

\* the size of the chunks of the copy of clean()
CHUNK_SIZE == 3

\* clean() step 3: the bytes from src to the end copied down to dst, chunk
\* by chunk, inside the one file
RECURSIVE copy_down(_, _, _)
copy_down(f, src, dst) ==
    LET chunk == OsRead(f, src, CHUNK_SIZE)
    IN  IF chunk = << >> THEN f
        ELSE copy_down(OsWrite(f, dst, chunk),
                       src + Len(chunk), dst + Len(chunk))

\* clean(): fresh is the number of tokens generated (0: nothing to reclaim)
clean(v, g) ==
    LET P == first_unread(v.file, TOKEN_SIZE)
        copied == Len(v.file) - P
        moved == copy_down(v.file, P, TOKEN_SIZE)
        truncated == SubSeq(moved, 1, copied + TOKEN_SIZE)
        made == NewToken(g + 1)
    IN  IF P = TOKEN_SIZE THEN [v |-> v, fresh |-> 0]
        ELSE [v |-> [v EXCEPT !.file = OsWrite(truncated, 0, made),
                              !.offset = TOKEN_SIZE,
                              !.read_position = TOKEN_SIZE,
                              !.token = made],
              fresh |-> 1]

\* a get() that never compacts
storage_get_without_autoclean(v, g) ==
    LET r == get(validate_token(v))
    IN  [v |-> r.v, ret |-> r.ret, err |-> r.err, fresh |-> 0]

\* get() with the token check before the scan and the autoclean after it
storage_get(v, g) ==
    LET r == get(validate_token(v))
        c == clean(r.v, g)
    IN  IF /\ r.err = "none"
           /\ r.ret.some
           /\ r.v.autoclean
           /\ r.v.read_position > r.v.critical_size
        THEN [v |-> c.v, ret |-> r.ret, err |-> r.err, fresh |-> c.fresh]
        ELSE [v |-> r.v, ret |-> r.ret, err |-> r.err, fresh |-> 0]

\* empty() with the token check before the scan
storage_empty(v) == empty(validate_token(v))

\* put(): it appends at the end of the file and checks no token
storage_put(v, message) == put(v, message)

TView(i) ==
    [file |-> file, offset |-> 0, read_position |-> read_position[i],
     token |-> token[i], autoclean |-> autoclean[i],
     critical_size |-> critical_size[i]]

InitClean ==
    /\ file \in InitialFiles
    /\ opened = {}
    /\ read_position = [i \in Inst |-> 0]
    /\ putLog = << >>
    /\ delivered = << >>
    /\ last = Call("none", 0, NoneRes, FALSE, "none", FALSE)
    /\ nGets = 0
    /\ sfile = << >>
    /\ sread_position = [i \in Inst |-> 0]
    /\ sres = NoneRes
    /\ szLen = 0
    /\ szRes = "pending"
    /\ token = [i \in Inst |-> << >>]
    /\ autoclean = [i \in Inst |-> FALSE]
    /\ critical_size = [i \in Inst |-> 0]
    /\ gen = 0
    /\ IdleExt

\* what the calls of SpecClean leave alone
frameClean == << nGets, shadowVars, sizeVars, extVars >>

\* instance i takes over the view a call left
Store(i, v) ==
    /\ file' = v.file
    /\ read_position' = [read_position EXCEPT ![i] = v.read_position]
    /\ token' = [token EXCEPT ![i] = v.token]
    /\ autoclean' = [autoclean EXCEPT ![i] = v.autoclean]
    /\ critical_size' = [critical_size EXCEPT ![i] = v.critical_size]

\* q = Squeue(name), then q.autoclean and q.critical_size set
StorageOpen(i, config) ==
    /\ i \notin opened
    /\ \E r \in {storage_open(file, gen, config)} :
           /\ IF r.err = "none"
              THEN opened' = opened \cup {i} /\ Store(i, r.v)
              ELSE UNCHANGED << file, opened, read_position, token,
                                autoclean, critical_size >>
           /\ gen' = gen + r.fresh
           /\ last' = Call("open", i, NoneRes, FALSE, r.err, FALSE)
    /\ UNCHANGED << putLog, delivered, frameClean >>

\* q.put(m)
StoragePut(i, m) ==
    /\ i \in opened
    /\ Len(putLog) < MaxPutsClean
    /\ \E r \in {storage_put(TView(i), m)} :
           /\ Store(i, r.v)
           /\ putLog' = IF r.err = "none" THEN Append(putLog, m) ELSE putLog
           /\ last' = Call("put", i, NoneRes, FALSE, r.err, FALSE)
    /\ UNCHANGED << opened, delivered, gen, frameClean >>

\* q.get()
StorageGet(i) ==
    /\ i \in opened
    /\ \E r \in {storage_get(TView(i), gen)} :
           /\ Store(i, r.v)
           /\ delivered' = IF r.err = "none" /\ r.ret.some
                           THEN Append(delivered, r.ret.val) ELSE delivered
           /\ gen' = gen + r.fresh
           /\ last' = Call("get", i, r.ret, r.fresh = 1, r.err,
                           cursor_reset(TView(i)))
    /\ UNCHANGED << opened, putLog, frameClean >>

\* q.empty()
StorageEmpty(i) ==
    /\ i \in opened
    /\ \E r \in {storage_empty(TView(i))} :
           /\ Store(i, r.v)
           /\ last' = Call("empty", i, NoneRes, r.ret, r.err,
                           cursor_reset(TView(i)))
    /\ UNCHANGED << opened, putLog, delivered, gen, frameClean >>

\* q.clean()
StorageClean(i) ==
    /\ i \in opened
    /\ \E r \in {clean(TView(i), gen)} :
           /\ Store(i, r.v)
           /\ gen' = gen + r.fresh
           /\ last' = Call("clean", i, NoneRes, r.fresh = 1, "none", FALSE)
    /\ UNCHANGED << opened, putLog, delivered, frameClean >>

NextClean ==
    \/ \E i \in Inst, config \in Configs : StorageOpen(i, config)
    \/ \E i \in Inst, m \in Msgs : StoragePut(i, m)
    \/ \E i \in Inst : StorageGet(i)
    \/ \E i \in Inst : StorageEmpty(i)
    \/ \E i \in Inst : StorageClean(i)

SpecClean == InitClean /\ [][NextClean]_vars

\* ------------------------------------------------------------- properties

IsPrefix(s, t) == Len(s) <= Len(t) /\ s = SubSeq(t, 1, Len(s))

\* the header at offset p of f, read as the 16-bit number the file holds
HeaderAt(f, p) == 256 * f[p + 1] + f[p + 2]

\* some record of f, from the record at offset p on, has its flag unread
RECURSIVE HasUnreadFrom(_, _)
HasUnreadFrom(f, p) ==
    IF p + 2 > Len(f) THEN FALSE
    ELSE IF (HeaderAt(f, p) \div 8) % 2 = 0 THEN TRUE
    ELSE HasUnreadFrom(f, p + 2 + (HeaderAt(f, p) \div 16))

\* C1 as stated: the k-th get call (None results counted) returns the k-th
\* message put when at least k puts came before it, and None otherwise.
C1_KthGetCallReturnsKthPut ==
    (last.op = "get") =>
        /\ last.err = "none"
        /\ last.res = IF Len(putLog) >= nGets
                      THEN SomeRes(putLog[nGets]) ELSE NoneRes

\* C1 amended: on one instance the k-th get call that returns a message
\* returns the k-th message put, and a get call returns None, without an
\* error, exactly when every message put before it has been returned.
C1_FifoOneInstance ==
    /\ IsPrefix(delivered, putLog)
    /\ (last.op = "get") =>
           /\ last.err = "none"
           /\ last.res.some => last.res.val = putLog[Len(delivered)]
           /\ ~last.res.some => delivered = putLog

\* put(a); put(b) with a # b, then three gets: a, b, None
C1_Witness ==
    /\ nGets = 3
    /\ Len(putLog) = 2
    /\ putLog[1] # putLog[2]
    /\ delivered = putLog
    /\ last.op = "get"
    /\ ~last.res.some

\* C2: with any instances opened on the file and their calls run one at a
\* time, the messages returned by get calls, in call order, are the messages
\* put, in put order, each returned once; and in every state a get call of
\* any instance returns the oldest message not yet returned, or None when
\* there is none.
C2_ExactlyOnceInPutOrder ==
    /\ IsPrefix(delivered, putLog)
    /\ \A i \in opened :
           LET r == get(View(i))
           IN  /\ r.err = "none"
               /\ r.ret.some <=> Len(delivered) < Len(putLog)
               /\ r.ret.some => r.ret.val = putLog[Len(delivered) + 1]

\* two instances have each returned messages, all of them, and a get call
\* then returned None
C2_Witness ==
    /\ Len(putLog) >= 2
    /\ delivered = putLog
    /\ \E i, j \in opened :
           /\ 0 < read_position[i]
           /\ read_position[i] < read_position[j]
    /\ last.op = "get"
    /\ ~last.res.some

\* C3: a put call changes no instance's read_position, and the messages put
\* by interleaved instances are returned in put order.
C3_PutKeepsReadPositions ==
    /\ [][(last'.op = "put") => (read_position' = read_position)]_vars
    /\ [](IsPrefix(delivered, putLog))

\* a put call made while its own and another instance's cursor had advanced
C3_Witness ==
    /\ last.op = "put"
    /\ last.err = "none"
    /\ read_position[last.inst] > 0
    /\ \E j \in opened : j # last.inst /\ read_position[j] > 0

\* C4: the run with the empty() calls and the run without them have the same
\* file, and every get call returns the same value in both.
C4_EmptyChangesNoDelivery ==
    /\ sfile = file
    /\ (last.op = "get") => (last.res = sres)

\* a get call returned a message while an empty() call had moved a cursor
\* that the run without empty() calls left behind
C4_Witness ==
    /\ last.op = "get"
    /\ last.res.some
    /\ \E j \in opened : read_position[j] # sread_position[j]

\* C5: in every state, empty() on any instance returns True exactly when no
\* record of the file has its flag unread.
C5_EmptyIsExact ==
    /\ \A i \in opened :
           LET r == empty(View(i))
           IN  r.err = "none" /\ (r.ret <=> ~HasUnreadFrom(file, 0))
    /\ (last.op = "empty") =>
           (last.err = "none" /\ (last.flag <=> ~HasUnreadFrom(file, 0)))

\* empty() returned True on an instance after another instance had got
\* every message
C5_Witness ==
    /\ last.op = "empty"
    /\ last.flag
    /\ putLog # << >>
    /\ \E j \in opened :
           /\ j # last.inst
           /\ read_position[j] = Len(file)

\* C6 as stated: put succeeds for every encoded length up to 2^15 - 1 and
\* fails with ExceededMessageSizeError for every encoded length from 2^15 on.
C6_PutSizeLimit ==
    (szRes # "pending") =>
        /\ (szLen <= MAX_MESSAGE_SIZE - 1) => (szRes = "none")
        /\ (szLen >= MAX_MESSAGE_SIZE) =>
               (szRes = "ExcedeedMessageSizeError")

\* what Squeue.put does instead: it succeeds exactly below 2^12, and from
\* 2^12 on int.to_bytes raises OverflowError
C6_PutLimitOfTheCode ==
    (szRes # "pending") =>
        (szRes = IF szLen < _MAX_MESSAGE_SIZE THEN "none" ELSE "OverflowError")

\* the records of f from offset p on: flag and payload bytes of each
RECURSIVE RecordsFrom(_, _)
RecordsFrom(f, p) ==
    IF p + 2 > Len(f) THEN << >>
    ELSE << [read |-> (HeaderAt(f, p) \div 8) % 2 = 1,
             payload |-> OsRead(f, p + 2, HeaderAt(f, p) \div 16)] >>
         \o RecordsFrom(f, p + 2 + (HeaderAt(f, p) \div 16))

\* recs without its leading run of records already read
RECURSIVE DropLeadingRead(_)
DropLeadingRead(recs) ==
    IF recs = << >> \/ ~recs[1].read THEN recs
    ELSE DropLeadingRead(Tail(recs))

\* the records of the messages put and not yet returned, as put writes them
Undelivered ==
    [k \in 1 .. (Len(putLog) - Len(delivered)) |->
        [read |-> FALSE,
         payload |-> _serialize_message(putLog[Len(delivered) + k])]]

\* C7, one clean() call: the records left are the records before without the
\* leading run of read ones, which are the messages not yet returned; the
\* file is shorter when the first record had been read and is unchanged when
\* the first record is unread or there is no record.
C7_CleanStep ==
    (last'.op = "clean") =>
        LET before == RecordsFrom(file, TOKEN_SIZE)
            after == RecordsFrom(file', TOKEN_SIZE)
        IN  /\ after = DropLeadingRead(before)
            /\ after = Undelivered
            /\ (before # << >> /\ before[1].read) =>
                   (Len(file') < Len(file) /\ last'.flag)
            /\ (before = << >> \/ ~before[1].read) => (file' = file)

C9_GetStep ==
    (last'.op = "get") =>
        LET i == last'.inst
            scanned == get(validate_token(TView(i)))
        IN  IF /\ autoclean[i]
               /\ scanned.ret.some
               /\ scanned.v.read_position > critical_size[i]
            THEN Len(file') < Len(file) /\ last'.flag
            ELSE Len(file') = Len(file) /\ ~last'.flag

C10_OpenStep ==
    (last'.op = "open") =>
        LET i == last'.inst
        IN  /\ (0 < Len(file) /\ Len(file) < TOKEN_SIZE) =>
                   /\ last'.err = "NoTokenFoundError"
                   /\ opened' = opened
                   /\ file' = file
            /\ (Len(file) = 0) =>
                   /\ last'.err = "none"
                   /\ i \in opened'
                   /\ Len(file') = TOKEN_SIZE
                   /\ token'[i] = file'
                   /\ read_position'[i] = TOKEN_SIZE

IdleBase ==
    /\ file = << >>
    /\ opened = {}
    /\ read_position = [i \in Inst |-> 0]
    /\ putLog = << >>
    /\ delivered = << >>
    /\ last = Call("none", 0, NoneRes, FALSE, "none", FALSE)
    /\ nGets = 0
    /\ sfile = << >>
    /\ sread_position = [i \in Inst |-> 0]
    /\ sres = NoneRes
    /\ szLen = 0
    /\ szRes = "pending"
    /\ token = [i \in Inst |-> << >>]
    /\ autoclean = [i \in Inst |-> FALSE]
    /\ critical_size = [i \in Inst |-> 0]
    /\ gen = 0

\* how far beyond the limits of the header the sizes tried go
MetaProbe == 8

\* Metadata.MESSAGE_READ_FLAG_FALSE: the string '0'
MESSAGE_READ_FLAG_FALSE == << 0 >>

\* Metadata.MESSAGE_READ_FLAG_TRUE: the string '1'
MESSAGE_READ_FLAG_TRUE == << 1 >>

MESSAGE_READ_FLAG_SIZE == 1

METADATA_SIZE == (MESSAGE_SIZE_SIZE + MESSAGE_READ_FLAG_SIZE) \div 8

\* StringDispenser.get: the first size characters, and what it keeps
StringDispenser_get(data, size) ==
    [part |-> SubSeq(data, 1, Min(size, Len(data))),
     rest |-> SubSeq(data, Min(size, Len(data)) + 1, Len(data))]

\* Metadata._int_to_binary; min_size = 0 stands for None
Metadata_int_to_binary(value, min_size) ==
    LET digits == BinaryDigits(value)
    IN  IF min_size # 0 /\ Len(digits) < min_size
        THEN Zeros(min_size - Len(digits)) \o digits
        ELSE digits

\* Metadata._binary_to_int: int(binary, base=2)
RECURSIVE Metadata_binary_to_int(_)
Metadata_binary_to_int(binary) ==
    IF binary = << >> THEN 0
    ELSE 2 * Metadata_binary_to_int(SubSeq(binary, 1, Len(binary) - 1))
         + binary[Len(binary)]

\* Metadata._bytes_to_int: int.from_bytes(data, byteorder='big')
RECURSIVE Metadata_bytes_to_int(_)
Metadata_bytes_to_int(data) ==
    IF data = << >> THEN 0
    ELSE 256 * Metadata_bytes_to_int(SubSeq(data, 1, Len(data) - 1))
         + data[Len(data)]

\* Metadata._int_to_bytes: value.to_bytes(length, byteorder='big'), which
\* raises OverflowError when value does not fit
Metadata_int_to_bytes(length, value) ==
    IF value >= 256 ^ length
    THEN [err |-> "OverflowError", bytes |-> << >>]
    ELSE [err |-> "none", bytes |-> BigEndian(length, value)]

\* a serialize() that puts the flag behind the size
Metadata_serialize_flag_last(message_size, message_read_flag) ==
    LET message_size_binary ==
            Metadata_int_to_binary(message_size, MESSAGE_SIZE_SIZE)
        metadata_bits == message_size_binary \o message_read_flag
    IN  Metadata_int_to_bytes(METADATA_SIZE,
                              Metadata_binary_to_int(metadata_bits))

\* Metadata(message_size, message_read_flag).serialize()
Metadata_serialize(message_size, message_read_flag) ==
    LET message_size_binary ==
            Metadata_int_to_binary(message_size, MESSAGE_SIZE_SIZE)
        metadata_bits == message_read_flag \o message_size_binary
    IN  Metadata_int_to_bytes(METADATA_SIZE,
                              Metadata_binary_to_int(metadata_bits))

\* Metadata.deserialize(data)
Metadata_deserialize(data) ==
    LET binary_metadata ==
            Metadata_int_to_binary(Metadata_bytes_to_int(data),
                                   METADATA_SIZE * 8)
        first == StringDispenser_get(binary_metadata, MESSAGE_READ_FLAG_SIZE)
        second == StringDispenser_get(first.rest, MESSAGE_SIZE_SIZE)
    IN  [message_size |-> Metadata_binary_to_int(second.part),
         message_read_flag |-> first.part]

\* the sizes handed to Metadata: every size a header can hold, and sizes
\* from 2^15 and around 2^16
MetaSizes ==
    (0 .. (MAX_MESSAGE_SIZE + MetaProbe))
    \cup ((2 * MAX_MESSAGE_SIZE - MetaProbe) ..
          (2 * MAX_MESSAGE_SIZE + MetaProbe))

InitMeta ==
    /\ IdleBase
    /\ mdSize \in MetaSizes
    /\ mdFlag \in { MESSAGE_READ_FLAG_FALSE, MESSAGE_READ_FLAG_TRUE }
    /\ mdOut = [done |-> FALSE, err |-> "none", bytes |-> << >>]
    /\ mdBack = [done |-> FALSE, message_size |-> 0,
                 message_read_flag |-> << >>]
    /\ torn = FALSE
    /\ IdleSteps
    /\ IdleLock

\* data = Metadata(mdSize, mdFlag).serialize()
MetaSerialize ==
    /\ ~mdOut.done
    /\ \E r \in {Metadata_serialize(mdSize, mdFlag)} :
           mdOut' = [done |-> TRUE, err |-> r.err, bytes |-> r.bytes]
    /\ UNCHANGED << progVars, nGets, shadowVars, sizeVars, cleanVars,
                    mdSize, mdFlag, mdBack, torn, stepVars, lockVars >>

\* Metadata.deserialize(data)
MetaDeserialize ==
    /\ mdOut.done
    /\ mdOut.err = "none"
    /\ ~mdBack.done
    /\ \E r \in {Metadata_deserialize(mdOut.bytes)} :
           mdBack' = [done |-> TRUE, message_size |-> r.message_size,
                      message_read_flag |-> r.message_read_flag]
    /\ UNCHANGED << progVars, nGets, shadowVars, sizeVars, cleanVars,
                    mdSize, mdFlag, mdOut, torn, stepVars, lockVars >>

NextMeta == MetaSerialize \/ MetaDeserialize

SpecMeta == InitMeta /\ [][NextMeta]_vars

\* C11: for every message_size in [0, 2^15 - 1] and both flags, serialize()
\* returns exactly 2 bytes whose most significant bit is the flag, and
\* deserialize of those bytes gives the same message_size and flag back.
C11_HeaderRoundTrip ==
    (mdSize < MAX_MESSAGE_SIZE) =>
        /\ mdOut.done =>
               /\ mdOut.err = "none"
               /\ Len(mdOut.bytes) = 2
               /\ mdOut.bytes[1] \div 128 = mdFlag[1]
        /\ mdBack.done =>
               /\ mdBack.message_size = mdSize
               /\ mdBack.message_read_flag = mdFlag

\* the largest size with the flag set went through serialize and deserialize
C11_Witness ==
    /\ mdSize = MAX_MESSAGE_SIZE - 1
    /\ mdFlag = MESSAGE_READ_FLAG_TRUE
    /\ mdOut.bytes = << 255, 255 >>
    /\ mdBack.done

\* C18: for every message_size >= 2^15 and either flag, serialize() fails
\* with an error and returns no bytes.
C18_OutOfRangeSizeFails ==
    (mdSize >= MAX_MESSAGE_SIZE /\ mdOut.done) =>
        /\ mdOut.err # "none"
        /\ mdOut.bytes = << >>

\* ------------------------------------ cursors and records under Spec

\* the offsets at which the records of f from offset p on start
RECURSIVE RecordStarts(_, _)
RecordStarts(f, p) ==
    IF p + 2 > Len(f) THEN << >>
    ELSE << p >> \o RecordStarts(f, p + 2 + (HeaderAt(f, p) \div 16))

\* the set of the elements of a sequence
Range(seq) == { seq[k] : k \in 1 .. Len(seq) }

\* offset p of f is the start of a record or the end of the file
IsBoundary(f, p) == p = Len(f) \/ p \in Range(RecordStarts(f, 0))

\* every record of f that starts before offset p has its flag set to read
ReadBefore(f, p) ==
    \A q \in Range(RecordStarts(f, 0)) :
        q < p => (HeaderAt(f, q) \div 8) % 2 = 1

\* C15, the cursors of one state: each read_position is the start of a
\* record or the end of the file, and every record before it is read.
C15_CursorsInState ==
    \A i \in Inst :
        /\ IsBoundary(file, read_position[i])
        /\ ReadBefore(file, read_position[i])

\* C15: over non-overlapping put, get and empty calls of any instances every
\* read_position is always a record start or the end of file with only read
\* records before it, and no read_position ever decreases.
C15_CursorInvariant ==
    /\ [] C15_CursorsInState
    /\ [][\A i \in Inst : read_position'[i] >= read_position[i]]_vars

\* two cursors stand at different record boundaries inside the file, one of
\* them before an unread record
C15_Witness ==
    /\ opened = Inst
    /\ read_position[1] > 0
    /\ read_position[1] < read_position[2]
    /\ read_position[2] < Len(file)
    /\ HasUnreadFrom(file, read_position[2])

\* the records whose flag one step changes, by their place in the file
Flipped ==
    { k \in 1 .. Len(RecordsFrom(file, 0)) :
          RecordsFrom(file', 0)[k].read # RecordsFrom(file, 0)[k].read }

\* C16, one call: the records there were keep their place, size and
\* payload, and a read flag stays read; the only bytes of the file that
\* change belong to the header of one record, flipped from unread to read by
\* a get() that returns that record's message; a get() that returns a
\* message flips one; records that are new are unread.
C16_RecordStep ==
    LET before == RecordsFrom(file, 0)
        after == RecordsFrom(file', 0)
        starts == RecordStarts(file, 0)
    IN  /\ Len(after) >= Len(before)
        /\ SubSeq(RecordStarts(file', 0), 1, Len(before)) = starts
        /\ \A k \in 1 .. Len(before) :
               /\ after[k].payload = before[k].payload
               /\ before[k].read => after[k].read
        /\ \A k \in (Len(before) + 1) .. Len(after) : ~after[k].read
        /\ Cardinality(Flipped) <= 1
        /\ \A k \in Flipped :
               /\ last'.op = "get"
               /\ last'.res.some
               /\ _serialize_message(last'.res.val) = before[k].payload
        /\ (last'.op = "get" /\ last'.res.some) => Flipped # {}
        /\ \A j \in 1 .. Len(file) :
               file'[j] # file[j] =>
                   \E k \in Flipped : j \in { starts[k] + 1, starts[k] + 2 }

\* C16: records are immutable except for one flag flip: every call is a
\* C16_RecordStep.
C16_RecordsImmutable == [][C16_RecordStep]_vars

\* a get() returned the second of three records: the first is read, the
\* third unread
C16_Witness ==
    /\ last.op = "get"
    /\ last.res.some
    /\ Len(RecordsFrom(file, 0)) = 3
    /\ RecordsFrom(file, 0)[2].read
    /\ RecordsFrom(file, 0)[2].payload = _serialize_message(last.res.val)
    /\ ~RecordsFrom(file, 0)[3].read

\* C19: an empty() call leaves the read_position of the calling instance
\* where it was.
C19_EmptyKeepsCursor ==
    [][(last'.op = "empty") => (read_position' = read_position)]_vars

\* --------------------------------------------- a put cut short: SpecTorn

\* the encoded lengths of the messages whose put is cut short
TornLengths == { 0, 3, 112, 240 }

\* q.put(m), len(str.encode(m)) = message_length, ended by the loss of the
\* process when one byte of the header had reached the file
CutPut(i, message_length) ==
    /\ i \in opened
    /\ ~torn
    /\ \E at_end \in {_go_to_the_write_position(View(i))} :
       \E metadata \in
             {_serialize_metadata(message_length, _MESSAGE_READ_FLAG_FALSE)} :
           /\ metadata.err = "none"
           /\ file' = _write(at_end, SubSeq(metadata.bytes, 1, 1)).file
    /\ torn' = TRUE
    /\ last' = Call("cutput", i, NoneRes, FALSE, "none", FALSE)
    /\ UNCHANGED << opened, read_position, putLog, delivered, nGets,
                    shadowVars, sizeVars, cleanVars, metaVars, stepVars,
                    lockVars >>

NextTorn ==
    \/ \E i \in Inst : Open(i) /\ UNCHANGED frameSpec
    \/ \E i \in Inst, m \in Msgs :
           ~torn /\ Put(i, m) /\ UNCHANGED frameSpec
    \/ \E i \in Inst : Get(i) /\ UNCHANGED frameSpec
    \/ \E i \in Inst : Empty(i) /\ UNCHANGED frameSpec
    \/ \E i \in Inst, n \in TornLengths : CutPut(i, n)

SpecTorn == Init /\ [][NextTorn]_vars

\* where the scan of get and empty from offset p of f stops: at the first
\* unread record or where fewer than 2 bytes are left
RECURSIVE ScanEnd(_, _)
ScanEnd(f, p) ==
    IF p + 2 > Len(f) THEN p
    ELSE IF (HeaderAt(f, p) \div 8) % 2 = 1
    THEN ScanEnd(f, p + 2 + (HeaderAt(f, p) \div 16))
    ELSE p

\* C17, one call: a get() or empty() whose scan ends where fewer than 2
\* bytes are left returns None, respectively True, without raising and
\* without changing the file.
C17_ShortHeaderStep ==
    (/\ last'.op \in { "get", "empty" }
     /\ Len(file) - ScanEnd(file, read_position[last'.inst]) < 2) =>
        /\ last'.err = "none"
        /\ last'.op = "get" => ~last'.res.some
        /\ last'.op = "empty" => last'.flag
        /\ file' = file

\* C17: a short header is end-of-file: every call is a C17_ShortHeaderStep.
C17_ShortHeaderIsEndOfFile == [][C17_ShortHeaderStep]_vars

\* ------------------------------- calls interleaved by system call: SpecSteps

\* Each process holds one instance.  A step is one os.read, one os.write or
\* the lseek to the end of the file, with the lseeks to _read_position that
\* follow it in the same method: those touch the process's own descriptor
\* only.

\* number of put calls begun in one behaviour of SpecSteps
StepPuts == 2

\* number of put calls begun in one behaviour of SpecRace
RacePuts == 3

\* number of get calls begun in one behaviour of SpecSteps
StepGets == 2

InitSteps ==
    /\ file = << >>
    /\ opened = Inst
    /\ read_position = [i \in Inst |-> SqueueInit(<< >>).read_position]
    /\ putLog = << >>
    /\ delivered = << >>
    /\ last = Call("none", 0, NoneRes, FALSE, "none", FALSE)
    /\ nGets = 0
    /\ sfile = << >>
    /\ sread_position = [i \in Inst |-> 0]
    /\ sres = NoneRes
    /\ szLen = 0
    /\ szRes = "pending"
    /\ token = [i \in Inst |-> << >>]
    /\ autoclean = [i \in Inst |-> FALSE]
    /\ critical_size = [i \in Inst |-> 0]
    /\ gen = 0
    /\ IdleMeta
    /\ torn = FALSE
    /\ IdleSteps
    /\ IdleLock

\* what the steps of SpecSteps leave alone
frameSteps ==
    << opened, shadowVars, sizeVars, cleanVars, metaVars, torn, lockVars >>

\* the instance of process i with its descriptor where the last step left it
PView(i) ==
    [file |-> file, offset |-> fd_offset[i],
     read_position |-> read_position[i]]

\* process i takes over the view a step left
Land(i, v) ==
    /\ file' = v.file
    /\ fd_offset' = [fd_offset EXCEPT ![i] = v.offset]
    /\ read_position' = [read_position EXCEPT ![i] = v.read_position]

\* the call of process i goes on at label with the local variables loc
Continue(i, v, label, loc) ==
    /\ Land(i, v)
    /\ pc' = [pc EXCEPT ![i] = label]
    /\ local' = [local EXCEPT ![i] = loc]
    /\ UNCHANGED << last, delivered, retLog >>

\* the get() of process i returns ret or raises err
Finish(i, v, ret, err) ==
    /\ Land(i, v)
    /\ pc' = [pc EXCEPT ![i] = "idle"]
    /\ local' = [local EXCEPT ![i] = NoLocal]
    /\ last' = Call("get", i, ret, FALSE, err, FALSE)
    /\ delivered' = IF ret.some THEN Append(delivered, ret.val)
                    ELSE delivered
    /\ retLog' = IF ret.some
                 THEN Append(retLog, [inst |-> i, at |-> local[i].target,
                                      fresh |-> local[i].fresh,
                                      val |-> ret.val])
                 ELSE retLog

\* no process is between the lseek and the last write of a put
NoPutRunning == \A j \in Inst : pc[j] \notin { "put_header", "put_payload" }

\* put, line 82: the lseek to the end; lines 83-86 encode the message
StartPut(i, m) ==
    /\ pc[i] = "idle"
    /\ \E v \in {_go_to_the_write_position(PView(i))} :
       \E payload \in {_serialize_message(m)} :
       \E metadata \in
             {_serialize_metadata(Len(payload), _MESSAGE_READ_FLAG_FALSE)} :
           /\ Land(i, v)
           /\ started' = Append(started, [message |-> m, at |-> v.offset])
           /\ IF metadata.err # "none"
              THEN /\ last' = Call("put", i, NoneRes, FALSE, metadata.err,
                                   FALSE)
                   /\ UNCHANGED << pc, local >>
              ELSE /\ pc' = [pc EXCEPT ![i] = "put_header"]
                   /\ local' = [local EXCEPT ![i] =
                                    [NoLocal EXCEPT !.message = m,
                                                    !.payload = payload,
                                                    !.metadata = metadata.bytes]]
                   /\ UNCHANGED last
    /\ UNCHANGED << putLog, delivered, nGets, flips, retLog >>

\* put, line 87: the write of the header
PutHeader(i) ==
    /\ pc[i] = "put_header"
    /\ \E v \in {_write(PView(i), local[i].metadata)} :
           Continue(i, v, "put_payload", local[i])
    /\ UNCHANGED << putLog, nGets, flips, started >>

\* put, line 88: the write of the payload, and the return
PutPayload(i) ==
    /\ pc[i] = "put_payload"
    /\ \E v \in {_write(PView(i), local[i].payload)} : Land(i, v)
    /\ pc' = [pc EXCEPT ![i] = "idle"]
    /\ local' = [local EXCEPT ![i] = NoLocal]
    /\ putLog' = Append(putLog, local[i].message)
    /\ last' = Call("put", i, NoneRes, FALSE, "none", FALSE)
    /\ UNCHANGED << delivered, nGets, flips, retLog, started >>

\* what follows the read of _is_end_of_file
AfterEof(i, r) ==
    IF r.ret THEN Finish(i, r.v, NoneRes, "none")
    ELSE Continue(i, r.v, "seen", local[i])

\* get, lines 96 and 98: the lseek to _read_position and the first
\* _is_end_of_file
StartGet(i) ==
    /\ pc[i] = "idle"
    /\ nGets < StepGets
    /\ nGets' = nGets + 1
    /\ \E r \in {_is_end_of_file(_go_to_the_read_position(PView(i)))} :
           AfterEof(i, r)
    /\ UNCHANGED << putLog, flips, started >>

\* get, line 98: _is_end_of_file of a later turn of the loop
GetEof(i) ==
    /\ pc[i] = "eof"
    /\ \E r \in {_is_end_of_file(PView(i))} : AfterEof(i, r)
    /\ UNCHANGED << putLog, nGets, flips, started >>

\* get, line 100: _message_already_read, the check of the flag
GetSeen(i) ==
    /\ pc[i] = "seen"
    /\ \E r \in {_message_already_read(PView(i))} :
           IF r.err # "none" THEN Finish(i, r.v, NoneRes, r.err)
           ELSE Continue(i, r.v, IF r.ret THEN "next" ELSE "mark_read",
                         [local[i] EXCEPT
                              !.target = read_position[i],
                              !.fresh = read_position[i] \notin flips])
    /\ UNCHANGED << putLog, nGets, flips, started >>

\* get, line 101: _go_to_the_next_message
GetNext(i) ==
    /\ pc[i] = "next"
    /\ \E r \in {_go_to_the_next_message(PView(i))} :
           IF r.err # "none" THEN Finish(i, r.v, NoneRes, r.err)
           ELSE Continue(i, r.v, "eof", local[i])
    /\ UNCHANGED << putLog, nGets, flips, started >>

\* get, line 103: _mark_message_as_read up to its write: the read of the
\* header and the new header made of its length
GetMarkRead(i) ==
    /\ pc[i] = "mark_read"
    /\ \E r \in {_read(PView(i), _METADATA_SIZE, TRUE)} :
       \E md \in {_deserialize_metadata(r.ret)} :
       \E new_metadata \in
             {_serialize_metadata(md.message_length,
                                  _MESSAGE_READ_FLAG_TRUE)} :
           IF md.isNone THEN Finish(i, r.v, NoneRes, "TypeError")
           ELSE IF new_metadata.err # "none"
           THEN Finish(i, r.v, NoneRes, new_metadata.err)
           ELSE Continue(i, r.v, "mark_write",
                         [local[i] EXCEPT !.metadata = new_metadata.bytes])
    /\ UNCHANGED << putLog, nGets, flips, started >>

\* get, line 103: the write of _mark_message_as_read, the flag flip
GetMarkWrite(i) ==
    /\ pc[i] = "mark_write"
    /\ \E v \in {_go_to_the_read_position(
                     _write(PView(i), local[i].metadata))} :
           Continue(i, v, "msg_header", local[i])
    /\ flips' = flips \cup { read_position[i] }
    /\ UNCHANGED << putLog, nGets, started >>

\* get, line 104: _read_message, the read of the header
GetMsgHeader(i) ==
    /\ pc[i] = "msg_header"
    /\ \E r \in {_read(PView(i), _METADATA_SIZE, FALSE)} :
       \E md \in {_deserialize_metadata(r.ret)} :
           IF md.isNone THEN Finish(i, r.v, NoneRes, "TypeError")
           ELSE Continue(i, r.v, "msg_payload",
                         [local[i] EXCEPT
                              !.message_length = md.message_length])
    /\ UNCHANGED << putLog, nGets, flips, started >>

\* get, line 104: _read_message, the read of the payload, and the return
GetMsgPayload(i) ==
    /\ pc[i] = "msg_payload"
    /\ \E m \in {_read(PView(i), local[i].message_length, FALSE)} :
       \E text \in {_deserialize_message(m.ret)} :
           IF text.err # "none" THEN Finish(i, m.v, NoneRes, text.err)
           ELSE Finish(i, m.v, SomeRes(text.text), "none")
    /\ UNCHANGED << putLog, nGets, flips, started >>

\* put calls do not overlap one another; everything else interleaves
NextSteps ==
    \/ \E i \in Inst, m \in Msgs :
           /\ Len(started) < StepPuts
           /\ NoPutRunning
           /\ StartPut(i, m)
           /\ UNCHANGED frameSteps
    \/ \E i \in Inst : PutHeader(i) /\ UNCHANGED frameSteps
    \/ \E i \in Inst : PutPayload(i) /\ UNCHANGED frameSteps
    \/ \E i \in Inst : StartGet(i) /\ UNCHANGED frameSteps
    \/ \E i \in Inst : GetEof(i) /\ UNCHANGED frameSteps
    \/ \E i \in Inst : GetSeen(i) /\ UNCHANGED frameSteps
    \/ \E i \in Inst : GetNext(i) /\ UNCHANGED frameSteps
    \/ \E i \in Inst : GetMarkRead(i) /\ UNCHANGED frameSteps
    \/ \E i \in Inst : GetMarkWrite(i) /\ UNCHANGED frameSteps
    \/ \E i \in Inst : GetMsgHeader(i) /\ UNCHANGED frameSteps
    \/ \E i \in Inst : GetMsgPayload(i) /\ UNCHANGED frameSteps

SpecSteps == InitSteps /\ [][NextSteps]_vars

\* put calls of different processes with nothing to keep them apart
NextRace ==
    \/ \E i \in Inst, m \in Msgs :
           /\ Len(started) < RacePuts
           /\ StartPut(i, m)
           /\ UNCHANGED frameSteps
    \/ \E i \in Inst : PutHeader(i) /\ UNCHANGED frameSteps
    \/ \E i \in Inst : PutPayload(i) /\ UNCHANGED frameSteps

SpecRace == InitSteps /\ [][NextRace]_vars

\* the get calls that check a flag and then flip it are past their check
Committed == { "mark_read", "mark_write", "msg_header", "msg_payload" }

\* C13: the flag flip is the commit point of get.  A flag write that has
\* landed stays in the file, and every get call that goes on to return the
\* record whose flag it checked, or has returned it, made that check before
\* any flag write had landed on that record: so a record is returned twice
\* only by calls that each checked before the other's write.
C13_FlipIsCommitPoint ==
    /\ \A p \in flips :
           Len(file) >= p + 2 /\ (HeaderAt(file, p) \div 8) % 2 = 1
    /\ \A i \in Inst : pc[i] \in Committed => local[i].fresh
    /\ \A k \in 1 .. Len(retLog) : retLog[k].fresh

\* a get call returned a record, and the get call of another process that
\* checked the flag of that record after the write passed over it
C13_Witness ==
    \E i \in Inst, k \in 1 .. Len(retLog) :
        /\ pc[i] = "next"
        /\ ~local[i].fresh
        /\ local[i].target = retLog[k].at
        /\ retLog[k].inst # i
        /\ retLog[k].val # << >>

\* two get calls of different processes returned the same record
RecordReturnedTwice ==
    \E j, k \in 1 .. Len(retLog) :
        /\ j < k
        /\ retLog[j].at = retLog[k].at
        /\ retLog[j].inst # retLog[k].inst
        /\ retLog[j].val = retLog[k].val
        /\ retLog[j].val # << >>

\* every put call begun has returned
AllPutsReturned ==
    /\ \A i \in Inst : pc[i] = "idle"
    /\ Len(putLog) = Len(started)

\* two put calls found the same end of file
SameSeek ==
    \E j, k \in 1 .. Len(started) : j < k /\ started[j].at = started[k].at

\* the bytes the records of the messages of log take
RECURSIVE RecordBytes(_)
RecordBytes(log) ==
    IF log = << >> THEN 0
    ELSE _METADATA_SIZE + Len(_serialize_message(Head(log)))
         + RecordBytes(Tail(log))

\* the messages the get calls of a new instance return, up to the first
\* None or exception
RECURSIVE DrainFrom(_)
DrainFrom(v) ==
    LET r == get(v)
    IN  IF r.err # "none" \/ ~r.ret.some THEN << >>
        ELSE << r.ret.val >> \o DrainFrom(r.v)

\* C14: unserialized puts corrupt each other: when two put calls found the
\* same end of file and every put has returned, the file is shorter than
\* the records put, so it is not their concatenation in any order, and the
\* get calls of a new instance return fewer messages than were put.
C14_RacingPutsCorrupt ==
    (AllPutsReturned /\ SameSeek) =>
        /\ Len(file) < RecordBytes(putLog)
        /\ Len(DrainFrom(SqueueInit(file))) < Len(putLog)

\* two put calls of different messages have interleaved and returned: the
\* file is one header and one payload, and one message is lost
C14_Witness ==
    /\ AllPutsReturned
    /\ SameSeek
    /\ Len(putLog) = 2
    /\ putLog[1] # putLog[2]
    /\ Len(file) = 5
    /\ Len(DrainFrom(SqueueInit(file))) = 1

\* the messages of the put calls begun
StartedMessages == { started[k].message : k \in 1 .. Len(started) }

\* C20: with put and get calls of different processes interleaved, every
\* message a get returns is the whole text of a message handed to some put,
\* and when no put is running the cursor of a process outside a call is at
\* the start of a record or at the end of the file.
C20_NoHalfWrittenRecord ==
    /\ \A k \in 1 .. Len(retLog) : retLog[k].val \in StartedMessages
    /\ NoPutRunning =>
           \A i \in Inst :
               pc[i] = "idle" => IsBoundary(file, read_position[i])

\* ------------------------------------------------------ squeue/lock.py

\* The processes of tests/test_lock.py: each writes its message to one file
\* inside the lock, by Lock.lock_section ("context") or by a function
\* decorated with Lock.wraps ("decorator").

\* message_length of the test
MessageLength == 2

\* the message of process i: the character of its number, message_length
\* times (48 is '0')
LockMessage(i) == [k \in 1 .. MessageLength |-> 48 + (i - 1)]

\* an os.open without O_EXCL: it opens the lock file that is there
open_lockfile_shared(exists) == [ok |-> TRUE, exists |-> TRUE]

\* Lock.acquire, line 24: os.open(lockfile, O_CREAT | O_EXCL | O_RDWR) fails
\* with OSError when the file exists and creates it otherwise
open_lockfile(exists) ==
    IF exists THEN [ok |-> FALSE, exists |-> TRUE]
    ELSE [ok |-> TRUE, exists |-> TRUE]

\* process i is between its acquire and the end of its release
Holding(i) ==
    \/ pc[i] \in { "seek", "write", "close", "unlink" }
    \/ method[i] = "decorator" /\ pc[i] = "open"

InitLock ==
    /\ IdleBase
    /\ IdleMeta
    /\ torn = FALSE
    /\ method \in [Inst -> { "context", "decorator" }]
    /\ pc = [i \in Inst |->
                IF method[i] = "context" THEN "open" ELSE "acquire"]
    /\ fd_offset = [i \in Inst |-> 0]
    /\ local = [i \in Inst |-> NoLocal]
    /\ flips = {}
    /\ retLog = << >>
    /\ started = << >>
    /\ lockfile = FALSE
    /\ spun = {}

\* what the steps of SpecLock leave alone
frameLock ==
    << opened, read_position, putLog, delivered, last, nGets, shadowVars,
       sizeVars, cleanVars, metaVars, torn, local, flips, retLog, started,
       method >>

\* descriptor = os.open(filename, os.O_WRONLY | os.O_CREAT)
LockOpenFile(i) ==
    /\ pc[i] = "open"
    /\ pc' = [pc EXCEPT ![i] =
                  IF method[i] = "context" THEN "acquire" ELSE "seek"]
    /\ fd_offset' = [fd_offset EXCEPT ![i] = 0]
    /\ UNCHANGED << file, lockfile, spun >>

\* Lock.acquire: one turn of its loop, the os.open of the lock file
LockAcquire(i) ==
    /\ pc[i] = "acquire"
    /\ \E r \in {open_lockfile(lockfile)} :
           /\ lockfile' = r.exists
           /\ pc' = [pc EXCEPT ![i] =
                         IF ~r.ok THEN "sleep"
                         ELSE IF method[i] = "context" THEN "seek"
                         ELSE "open"]
           /\ spun' = IF r.ok THEN spun ELSE spun \cup {i}
    /\ UNCHANGED << file, fd_offset >>

\* Lock.acquire: time.sleep(delay) after the OSError
LockSleep(i) ==
    /\ pc[i] = "sleep"
    /\ pc' = [pc EXCEPT ![i] = "acquire"]
    /\ UNCHANGED << file, fd_offset, lockfile, spun >>

\* os.lseek(descriptor, 0, os.SEEK_END)
LockSeek(i) ==
    /\ pc[i] = "seek"
    /\ pc' = [pc EXCEPT ![i] = "write"]
    /\ fd_offset' = [fd_offset EXCEPT ![i] = Len(file)]
    /\ UNCHANGED << file, lockfile, spun >>

\* os.write(descriptor, message)
LockWrite(i) ==
    /\ pc[i] = "write"
    /\ pc' = [pc EXCEPT ![i] = "close"]
    /\ file' = OsWrite(file, fd_offset[i], LockMessage(i))
    /\ fd_offset' = [fd_offset EXCEPT ![i] = fd_offset[i] + MessageLength]
    /\ UNCHANGED << lockfile, spun >>

\* Lock.release: os.close(descriptor) of the lock file
LockClose(i) ==
    /\ pc[i] = "close"
    /\ pc' = [pc EXCEPT ![i] = "unlink"]
    /\ UNCHANGED << file, fd_offset, lockfile, spun >>

\* a release that closes the descriptor and leaves the lock file
LockUnlink_keeps_lockfile(i) ==
    /\ pc[i] = "unlink"
    /\ pc' = [pc EXCEPT ![i] = "done"]
    /\ UNCHANGED << file, fd_offset, lockfile, spun >>

\* Lock.release: os.unlink(lockfile)
LockUnlink(i) ==
    /\ pc[i] = "unlink"
    /\ pc' = [pc EXCEPT ![i] = "done"]
    /\ lockfile' = FALSE
    /\ UNCHANGED << file, fd_offset, spun >>

NextLock ==
    \/ \E i \in Inst : LockOpenFile(i) /\ UNCHANGED frameLock
    \/ \E i \in Inst : LockAcquire(i) /\ UNCHANGED frameLock
    \/ \E i \in Inst : LockSleep(i) /\ UNCHANGED frameLock
    \/ \E i \in Inst : LockSeek(i) /\ UNCHANGED frameLock
    \/ \E i \in Inst : LockWrite(i) /\ UNCHANGED frameLock
    \/ \E i \in Inst : LockClose(i) /\ UNCHANGED frameLock
    \/ \E i \in Inst : LockUnlink(i) /\ UNCHANGED frameLock

SpecLock == InitLock /\ [][NextLock]_vars

\* the processes whose write has reached the file
Written == { i \in Inst : pc[i] \in { "close", "unlink", "done" } }

\* the file is whole messages, one after another
WholeBlocks ==
    /\ Len(file) = MessageLength * Cardinality(Written)
    /\ \A b \in 0 .. (Cardinality(Written) - 1) :
           \E i \in Written :
               SubSeq(file, b * MessageLength + 1, (b + 1) * MessageLength)
                   = LockMessage(i)
    /\ \A i \in Written :
           \E b \in 0 .. (Cardinality(Written) - 1) :
               SubSeq(file, b * MessageLength + 1, (b + 1) * MessageLength)
                   = LockMessage(i)

\* C12: lock mutual exclusion: at most one process is between its acquire
\* and its release and the lock file exists while one is; the seek and
\* write pairs made inside the section do not overlap: the file always
\* holds the message of every process that has written, each as one
\* unmixed block.
C12_LockMutualExclusion ==
    /\ Cardinality({ i \in Inst : Holding(i) }) <= 1
    /\ (\E i \in Inst : Holding(i)) => lockfile
    /\ WholeBlocks

\* every process has left its section, one of them after it had found the
\* lock taken, and the file holds every message
C12_Witness ==
    /\ \A i \in Inst : pc[i] = "done"
    /\ spun # {}
    /\ ~lockfile
    /\ Len(file) = MessageLength * NInst

\* -------------------------------------------- a put that fails: SpecReject

\* the text 'a' * n, whose encoding is n bytes long
LongMessage(n) == [k \in 1 .. n |-> 97]

\* a put that writes the payload before it encodes the header
put_of_length_written_first(v, message_length) ==
    LET at_end == _go_to_the_write_position(v)
        payload == LongMessage(message_length)
        written == _write(at_end, payload)
        metadata == _serialize_metadata(Len(payload), _MESSAGE_READ_FLAG_FALSE)
    IN  IF metadata.err # "none" THEN Raised(written, metadata.err)
        ELSE Returned(_write(written, metadata.bytes), NoneRes)

\* Squeue.put of 'a' * message_length; str.encode of such a text is its
\* code points
put_of_length(v, message_length) ==
    LET at_end == _go_to_the_write_position(v)
        payload == LongMessage(message_length)
        metadata == _serialize_metadata(Len(payload), _MESSAGE_READ_FLAG_FALSE)
    IN  IF metadata.err # "none" THEN Raised(at_end, metadata.err)
        ELSE Returned(_write(_write(at_end, metadata.bytes), payload), NoneRes)

\* the lengths of the messages too long for the header: from
\* _MAX_MESSAGE_SIZE, and Metadata.MAX_MESSAGE_SIZE
RejectLengths ==
    { _MAX_MESSAGE_SIZE, _MAX_MESSAGE_SIZE + 1, MAX_MESSAGE_SIZE }

\* q.put('a' * n)
PutLong(i, n) ==
    /\ i \in opened
    /\ \E r \in {put_of_length(View(i), n)} :
           /\ file' = r.v.file
           /\ read_position' = [read_position EXCEPT ![i] = r.v.read_position]
           /\ putLog' = IF r.err = "none"
                        THEN Append(putLog, LongMessage(n)) ELSE putLog
           /\ last' = Call("put", i, NoneRes, FALSE, r.err, FALSE)
    /\ UNCHANGED << opened, delivered >>

NextReject ==
    \/ \E i \in Inst : Open(i) /\ UNCHANGED frameSpec
    \/ \E i \in Inst, m \in Msgs : Put(i, m) /\ UNCHANGED frameSpec
    \/ \E i \in Inst : Get(i) /\ UNCHANGED frameSpec
    \/ \E i \in Inst : Empty(i) /\ UNCHANGED frameSpec
    \/ \E i \in Inst, n \in RejectLengths : PutLong(i, n) /\ UNCHANGED frameSpec

SpecReject == Init /\ [][NextReject]_vars

\* the view instance j starts its next call from, after the step
ViewAfter(j) ==
    [file |-> file', offset |-> 0, read_position |-> read_position'[j]]

\* C21, one call: a put that fails leaves the file, every read_position,
\* the messages put and the messages returned as they were; the next get,
\* empty or put of any instance is computed from View(j) alone, which is
\* what it was before the call.
C21_RejectedPutStep ==
    (last'.op = "put" /\ last'.err # "none") =>
        /\ file' = file
        /\ read_position' = read_position
        /\ putLog' = putLog
        /\ delivered' = delivered
        /\ opened' = opened
        /\ \A j \in Inst : ViewAfter(j) = View(j)

\* C21: a rejected put has no effect: every call is a C21_RejectedPutStep.
C21_RejectedPutHasNoEffect == [][C21_RejectedPutStep]_vars

\* a put of a message too long failed on a file that holds a read and an
\* unread record, with the cursor of its instance behind the first
C21_Witness ==
    /\ last.op = "put"
    /\ last.err = "OverflowError"
    /\ Len(RecordsFrom(file, 0)) = 2
    /\ RecordsFrom(file, 0)[1].read
    /\ ~RecordsFrom(file, 0)[2].read
    /\ read_position[last.inst] > 0

\* ------------------------------ a section that raises: SpecLockRaise

\* a statement of the protected body raises: the exception enters the
\* generator of lock_section at its yield, which has no try around it, so
\* the generator ends there and the call of release after the yield is
\* never made; the exception leaves the with statement (and the wrapper)
LockBodyRaises(i) ==
    /\ Holding(i)
    /\ pc[i] \in { "open", "seek", "write" }
    /\ pc' = [pc EXCEPT ![i] = "raised"]
    /\ UNCHANGED << file, fd_offset, lockfile, spun >>

NextLockRaise ==
    \/ \E i \in Inst : LockOpenFile(i) /\ UNCHANGED frameLock
    \/ \E i \in Inst : LockAcquire(i) /\ UNCHANGED frameLock
    \/ \E i \in Inst : LockSleep(i) /\ UNCHANGED frameLock
    \/ \E i \in Inst : LockSeek(i) /\ UNCHANGED frameLock
    \/ \E i \in Inst : LockWrite(i) /\ UNCHANGED frameLock
    \/ \E i \in Inst : LockClose(i) /\ UNCHANGED frameLock
    \/ \E i \in Inst : LockUnlink(i) /\ UNCHANGED frameLock
    \/ \E i \in Inst : LockBodyRaises(i) /\ UNCHANGED frameLock

SpecLockRaise == InitLock /\ [][NextLockRaise]_vars

\* C22: the lock is released on every exit from the protected section:
\* when no process is between its acquire and the end of its release,
\* whether the sections ended by returning or by raising, the lock file
\* does not exist (so the next os.open of Lock.acquire succeeds).
C22_LockReleasedOnEveryExit ==
    (\A i \in Inst : ~Holding(i)) =>
        /\ ~lockfile
        /\ open_lockfile(lockfile).ok

\* the sections that return do release: with no process in its section
\* and none that raised the lock file does not exist
ReleasedAfterReturn ==
    (\A i \in Inst : ~Holding(i) /\ pc[i] # "raised") => ~lockfile

\* a process spins in Lock.acquire after a section that raised, with no
\* process left to release the lock
SpinsAfterRaise ==
    /\ \E i \in Inst : pc[i] = "raised"
    /\ \E i \in Inst : pc[i] \in { "acquire", "sleep" } /\ i \in spun
    /\ \A i \in Inst : ~Holding(i)
    /\ lockfile

\* ------------------------------------------ lock progress: SpecLockFair

\* the next step of process i, whatever it is
LockStep(i) ==
    /\ \/ LockOpenFile(i)
       \/ LockAcquire(i)
       \/ LockSleep(i)
       \/ LockSeek(i)
       \/ LockWrite(i)
       \/ LockClose(i)
       \/ LockUnlink(i)
    /\ UNCHANGED frameLock

\* the processes of fill_file are operating system processes of their own:
\* each one is scheduled again and again, its system calls return and
\* time.sleep(delay) ends, so a process that can take a step takes it
SpecLockFair ==
    /\ InitLock
    /\ [][NextLock]_vars
    /\ \A i \in Inst : WF_vars(LockStep(i))

\* process i is in the loop of Lock.acquire
Waiting(i) == pc[i] \in { "acquire", "sleep" }

\* C23: lock progress, with sections that all return: whenever the
\* processes in the loop of Lock.acquire are the set S, not empty, the lock
\* is later held by one of them; and every process finally completes its
\* section.
C23_LockProgress ==
    /\ \A S \in (SUBSET Inst) \ { {} } :
           (S = { i \in Inst : Waiting(i) }) ~> (\E i \in S : Holding(i))
    /\ <>(\A i \in Inst : pc[i] = "done")

\* a process that had found the lock taken holds it, after a process
\* that held it has completed its section
C23_Witness ==
    /\ \E i \in spun : Holding(i)
    /\ \E i \in Inst : pc[i] = "done"

====
